---- MODULE Spec2Model ----
(***************************************************************************)
(* pmemkv: the public C surface of src/libpmemkv.cc on top of the sorted   *)
(* persistent B+-tree engine ("stree").  The C surface is translated from  *)
(* src/src/libpmemkv.cc.  The engine, the pool transactions and the        *)
(* diagnostic stream are not part of the source tree at hand; they are     *)
(* modelled from the specification (spec.md, sections 3-7).                *)
(***************************************************************************)
EXTENDS Integers, Sequences, FiniteSets, TLC

VARIABLES
    pool,      \* the persistent pool image (header, root pointer, nodes)
    undo,      \* the pool library's undo log: the image at transaction begin
    pending,   \* the durable writes the running transaction still has to make
    db,        \* the engine handle the caller holds
    errormsg,  \* the thread-local last-error message
    ret,       \* the last public call: its arguments and what it handed back
    live,      \* the entries put and not removed since, as of the last commit
    bag        \* the configuration bag the caller is building, and its objects

vars == <<pool, undo, pending, db, errormsg, ret, live, bag>>

(***************************************************************************)
(* Bounds of the model.                                                    *)
(***************************************************************************)
SIZE == 3           \* the pool of the tests has room for this many entries
DEGREE == 3         \* branching factor of the tree
LARGE_LIMIT == 7    \* the large tree of the tests holds the keys 1 .. LARGE_LIMIT
LARGE_SIZE == LARGE_LIMIT   \* and its pool has room for them

\* keys and values are byte strings of explicit length; 0 is the NUL byte.
\* The keys: the empty key, a NUL byte, a key and its extension past a NUL.
Keys == {<<>>, <<0>>, <<1>>, <<1, 0>>}
Values == {<<>>, <<1, 0>>}

\* range endpoints: a key, or one of the two sentinels (spec 4.3, 9)
MIN_KEY == <<0, <<>>>>
MAX_KEY == <<2, <<>>>>
KeyEP(k) == <<1, k>>
EndPoints == {KeyEP(k) : k \in Keys} \cup {MIN_KEY, MAX_KEY}

\* DEGREE is a constant of the engine's build and a pool has the layout of the
\* build that made it: p.degree.  The default build has DEGREE; the builds
\* compared for node occupancy have DEGREE and DEGREE + 1 (CAP even and odd)
Degrees == {DEGREE, DEGREE + 1}
LEAF_CAP(p) == p.degree - 1
INNER_CAP(p) == p.degree - 1
MinEntries(p) == (LEAF_CAP(p) + 1) \div 2      \* ceil(CAP / 2)

NodeIds == 1 .. (2 * LARGE_SIZE + 2)

(***************************************************************************)
(* Comparators.                                                            *)
(***************************************************************************)
BinaryName == "__pmemkv_binary_comparator"
InvalidName == "invalid_cmp"
ComparatorNames == {BinaryName, InvalidName}

RECURSIVE BinaryCompare(_, _)
BinaryCompare(a, b) ==
    IF a = <<>> /\ b = <<>> THEN 0
    ELSE IF a = <<>> THEN -1
    ELSE IF b = <<>> THEN 1
    ELSE IF Head(a) < Head(b) THEN -1
    ELSE IF Head(a) > Head(b) THEN 1
    ELSE BinaryCompare(Tail(a), Tail(b))

\* mutant: every comparator, the default one too, compares its arguments in
\* the order of invalid_comparator
Compare_reversed(c, a, b) == BinaryCompare(b, a)

Compare(c, a, b) ==
    IF c = InvalidName THEN BinaryCompare(b, a) ELSE BinaryCompare(a, b)

\* range endpoints: the two sentinels bracket every key under every comparator
CompareEndPoint(c, a, b) ==
    IF a[1] # b[1] THEN (IF a[1] < b[1] THEN -1 ELSE 1)
    ELSE IF a[1] = 1 THEN Compare(c, a[2], b[2])
    ELSE 0

(***************************************************************************)
(* Nodes.                                                                  *)
(***************************************************************************)
FreeNode == [kind |-> "free", keys |-> <<>>, vals |-> <<>>, kids |-> <<>>, next |-> 0]
Leaf(ks, vs, nx) == [kind |-> "leaf", keys |-> ks, vals |-> vs, kids |-> <<>>, next |-> nx]
Inner(ks, cs) == [kind |-> "inner", keys |-> ks, vals |-> <<>>, kids |-> cs, next |-> 0]

Front(s) == SubSeq(s, 1, Len(s) - 1)
Last(s) == s[Len(s)]
InsertAt(s, i, x) == SubSeq(s, 1, i - 1) \o <<x>> \o SubSeq(s, i, Len(s))
RemoveAt(s, i) == SubSeq(s, 1, i - 1) \o SubSeq(s, i + 1, Len(s))

Alloc(nodes) == CHOOSE n \in NodeIds : nodes[n].kind = "free" /\ \A m \in NodeIds : nodes[m].kind = "free" => n <= m

(***************************************************************************)
(* Lookup (spec 4.3): at an inner node take child i for the smallest i     *)
(* with key < separator[i], or the last child; at a leaf search equality.  *)
(***************************************************************************)
ChildIndex(node, c, e) ==
    LET below == {i \in 1 .. Len(node.keys) : CompareEndPoint(c, e, KeyEP(node.keys[i])) < 0}
    IN  IF below = {} THEN Len(node.keys) + 1
        ELSE CHOOSE i \in below : \A j \in below : i <= j

\* the node ids from the root down to the leaf that endpoint e belongs to
RECURSIVE PathTo(_, _, _, _)
PathTo(nodes, n, c, e) ==
    IF nodes[n].kind # "inner" THEN <<n>>
    ELSE <<n>> \o PathTo(nodes, nodes[n].kids[ChildIndex(nodes[n], c, e)], c, e)

\* position of key k in a leaf, 0 when the leaf does not hold it
SlotOf(node, c, k) ==
    LET hit == {i \in 1 .. Len(node.keys) : Compare(c, node.keys[i], k) = 0}
    IN  IF hit = {} THEN 0 ELSE CHOOSE i \in hit : TRUE

\* the leaf and slot of key k, slot 0 when absent
Lookup(p, c, k) ==
    IF p.root = 0 THEN [leaf |-> 0, slot |-> 0]
    ELSE LET l == Last(PathTo(p.nodes, p.root, c, KeyEP(k)))
         IN  [leaf |-> l, slot |-> SlotOf(p.nodes[l], c, k)]

(***************************************************************************)
(* Iteration (spec 4.3): the leaf chain from a leaf onwards, each leaf in  *)
(* its stored order.  Entries are <<key, value>> pairs.                    *)
(***************************************************************************)
LeafEntries(node) == [i \in 1 .. Len(node.keys) |-> <<node.keys[i], node.vals[i]>>]

RECURSIVE ChainFrom(_, _, _)
ChainFrom(nodes, l, fuel) ==
    IF l = 0 \/ fuel = 0 THEN <<>>
    ELSE LeafEntries(nodes[l]) \o ChainFrom(nodes, nodes[l].next, fuel - 1)

RECURSIVE TakeBelow(_, _, _)
TakeBelow(es, c, hi) ==
    IF es = <<>> THEN <<>>
    ELSE IF CompareEndPoint(c, KeyEP(Head(es)[1]), hi) >= 0 THEN <<>>
    ELSE <<Head(es)>> \o TakeBelow(Tail(es), c, hi)

\* the entries a range scan over (lo, hi) visits, both endpoints excluded:
\* start at the leaf lo belongs to, skip up to lo, stop at the first key >= hi
Traverse(p, c, lo, hi) ==
    IF p.root = 0 \/ CompareEndPoint(c, lo, hi) >= 0 THEN <<>>
    ELSE LET first == Last(PathTo(p.nodes, p.root, c, lo))
             Above(e) == CompareEndPoint(c, lo, KeyEP(e[1])) < 0
         IN  TakeBelow(SelectSeq(ChainFrom(p.nodes, first, Cardinality(NodeIds)), Above), c, hi)

(***************************************************************************)
(* Insert (spec 4.3).  Every operator below returns the sequence of pool   *)
(* images the handler's durable writes produce, in order, inside its one   *)
(* transaction; the last image is the one the commit makes durable.        *)
(***************************************************************************)
Bump(p, d) == [p EXCEPT !.count = p.count + d]

\* a leaf with the entry put in key order
LeafInsert(node, c, k, v) ==
    LET i == ChildIndex(node, c, KeyEP(k))
    IN  Leaf(InsertAt(node.keys, i, k), InsertAt(node.vals, i, v), node.next)

\* number of entries (separators) a full node keeps on a split
KeepOnSplit(p) == (LEAF_CAP(p) + 1) \div 2

\* the separator sep and the new right node go into the parent, the last
\* node of path; a full parent splits in turn; an empty path grows a root
RECURSIVE Promote(_, _, _, _, _)
Promote(p, path, left, sep, right) ==
    IF path = <<>>
    THEN LET r == Alloc(p.nodes)
         IN  << [p EXCEPT !.nodes[r] = Inner(<<sep>>, <<left, right>>), !.root = r] >>
    ELSE LET par == Last(path)
             pn == p.nodes[par]
             i == CHOOSE j \in 1 .. Len(pn.kids) : pn.kids[j] = left
             ks == InsertAt(pn.keys, i, sep)
             cs == InsertAt(pn.kids, i + 1, right)
         IN  IF Len(ks) <= INNER_CAP(p)
             THEN << [p EXCEPT !.nodes[par] = Inner(ks, cs)] >>
             ELSE LET r == Alloc(p.nodes)
                      m == KeepOnSplit(p)
                      p1 == [p EXCEPT !.nodes[par] = Inner(SubSeq(ks, 1, m), SubSeq(cs, 1, m + 1)),
                                      !.nodes[r] = Inner(SubSeq(ks, m + 2, Len(ks)),
                                                         SubSeq(cs, m + 2, Len(cs)))]
                  IN  <<p1>> \o Promote(p1, Front(path), par, ks[m + 1], r)

\* mutant: a split that promotes the low key of the left leaf
Split_low_separator(p, c, path, k, v) ==
    LET l == Last(path)
        node == p.nodes[l]
        n == Alloc(p.nodes)
        m == KeepOnSplit(p)
        upper == Leaf(SubSeq(node.keys, m + 1, Len(node.keys)),
                      SubSeq(node.vals, m + 1, Len(node.vals)), 0)
        lower == Leaf(SubSeq(node.keys, 1, m), SubSeq(node.vals, 1, m), node.next)
        \* allocate the new leaf and move the upper half to it
        p1 == [p EXCEPT !.nodes[n] = upper]
        p2 == [p1 EXCEPT !.nodes[l] = lower]
        \* the incoming entry goes to the side it sorts into
        toRight == Compare(c, k, upper.keys[1]) >= 0
        p3 == IF toRight THEN [p2 EXCEPT !.nodes[n] = LeafInsert(upper, c, k, v)]
                         ELSE [p2 EXCEPT !.nodes[l] = LeafInsert(lower, c, k, v)]
        \* link the new leaf into the chain
        p4 == [p3 EXCEPT !.nodes[n].next = p3.nodes[l].next, !.nodes[l].next = n]
                up == Promote(p4, Front(path), l, p4.nodes[l].keys[1], n)
    IN  <<p1, p2, p3, p4>> \o up \o <<Bump(Last(up), 1)>>

\* split of the full leaf at the end of path for the incoming entry
Split(p, c, path, k, v) ==
    LET l == Last(path)
        node == p.nodes[l]
        n == Alloc(p.nodes)
        m == KeepOnSplit(p)
        upper == Leaf(SubSeq(node.keys, m + 1, Len(node.keys)),
                      SubSeq(node.vals, m + 1, Len(node.vals)), 0)
        lower == Leaf(SubSeq(node.keys, 1, m), SubSeq(node.vals, 1, m), node.next)
        \* allocate the new leaf and move the upper half to it
        p1 == [p EXCEPT !.nodes[n] = upper]
        p2 == [p1 EXCEPT !.nodes[l] = lower]
        \* the incoming entry goes to the side it sorts into
        toRight == Compare(c, k, upper.keys[1]) >= 0
        p3 == IF toRight THEN [p2 EXCEPT !.nodes[n] = LeafInsert(upper, c, k, v)]
                         ELSE [p2 EXCEPT !.nodes[l] = LeafInsert(lower, c, k, v)]
        \* link the new leaf into the chain
        p4 == [p3 EXCEPT !.nodes[n].next = p3.nodes[l].next, !.nodes[l].next = n]
        \* promote the low key of the right leaf
        up == Promote(p4, Front(path), l, p4.nodes[n].keys[1], n)
    IN  <<p1, p2, p3, p4>> \o up \o <<Bump(Last(up), 1)>>

Insert(p, c, k, v) ==
    IF p.root = 0
    THEN LET n == Alloc(p.nodes)
             p1 == [p EXCEPT !.nodes[n] = Leaf(<<k>>, <<v>>, 0), !.root = n]
         IN  <<p1, Bump(p1, 1)>>
    ELSE LET path == PathTo(p.nodes, p.root, c, KeyEP(k))
             l == Last(path)
             node == p.nodes[l]
             i == SlotOf(node, c, k)
         IN  IF i > 0
             THEN \* update: the old entry is freed and a new one written
                  << [p EXCEPT !.nodes[l].keys[i] = k, !.nodes[l].vals[i] = v] >>
             ELSE IF Len(node.keys) < LEAF_CAP(p)
             THEN LET p1 == [p EXCEPT !.nodes[l] = LeafInsert(node, c, k, v)]
                  IN  <<p1, Bump(p1, 1)>>
             ELSE Split(p, c, path, k, v)

(***************************************************************************)
(* Remove (spec 4.3): free the entry; a non-root node left below the       *)
(* minimum borrows one entry from a sibling under the same parent, or      *)
(* merges with the left sibling (the right one when there is no left) and  *)
(* hands the underflow to the parent.                                      *)
(***************************************************************************)
Size(node) == Len(node.keys)

BorrowLeft(p, par, i) ==
    LET n == p.nodes[par].kids[i]
        s == p.nodes[par].kids[i - 1]
        a == p.nodes[s]
        b == p.nodes[n]
        p1 == IF b.kind = "leaf"
              THEN [p EXCEPT !.nodes[s] = Leaf(Front(a.keys), Front(a.vals), a.next),
                             !.nodes[n] = Leaf(<<Last(a.keys)>> \o b.keys,
                                               <<Last(a.vals)>> \o b.vals, b.next)]
              ELSE [p EXCEPT !.nodes[s] = Inner(Front(a.keys), Front(a.kids)),
                             !.nodes[n] = Inner(<<p.nodes[par].keys[i - 1]>> \o b.keys,
                                                <<Last(a.kids)>> \o b.kids)]
    IN  <<p1, [p1 EXCEPT !.nodes[par].keys[i - 1] = Last(a.keys)]>>

BorrowRight(p, par, i) ==
    LET n == p.nodes[par].kids[i]
        s == p.nodes[par].kids[i + 1]
        a == p.nodes[n]
        b == p.nodes[s]
        p1 == IF a.kind = "leaf"
              THEN [p EXCEPT !.nodes[n] = Leaf(Append(a.keys, Head(b.keys)),
                                               Append(a.vals, Head(b.vals)), a.next),
                             !.nodes[s] = Leaf(Tail(b.keys), Tail(b.vals), b.next)]
              ELSE [p EXCEPT !.nodes[n] = Inner(Append(a.keys, p.nodes[par].keys[i]),
                                                Append(a.kids, Head(b.kids))),
                             !.nodes[s] = Inner(Tail(b.keys), Tail(b.kids))]
        sep == IF a.kind = "leaf" THEN b.keys[2] ELSE b.keys[1]
    IN  <<p1, [p1 EXCEPT !.nodes[par].keys[i] = sep]>>

\* children j and j + 1 of par become one node, the left one
Merge(p, par, j) ==
    LET l == p.nodes[par].kids[j]
        r == p.nodes[par].kids[j + 1]
        a == p.nodes[l]
        b == p.nodes[r]
        p1 == IF a.kind = "leaf"
              THEN [p EXCEPT !.nodes[l] = Leaf(a.keys \o b.keys, a.vals \o b.vals, b.next)]
              ELSE [p EXCEPT !.nodes[l] = Inner(a.keys \o <<p.nodes[par].keys[j]>> \o b.keys,
                                                a.kids \o b.kids)]
    IN  <<p1, [p1 EXCEPT !.nodes[r] = FreeNode,
                         !.nodes[par] = Inner(RemoveAt(p.nodes[par].keys, j),
                                              RemoveAt(p.nodes[par].kids, j + 1))]>>

\* mutant: a remove that never borrows nor merges
Rebalance_none(p, path) == <<>>

RECURSIVE Rebalance(_, _)
Rebalance(p, path) ==
    LET n == Last(path)
        node == p.nodes[n]
    IN  IF Len(path) = 1
        THEN IF node.kind = "inner" /\ Size(node) = 0
             THEN \* the root is left with a single child: the tree loses a level
                  << [p EXCEPT !.root = node.kids[1], !.nodes[n] = FreeNode] >>
             ELSE <<>>
        ELSE IF Size(node) >= MinEntries(p) THEN <<>>
        ELSE LET par == path[Len(path) - 1]
                 kids == p.nodes[par].kids
                 i == CHOOSE j \in 1 .. Len(kids) : kids[j] = n
                 hasLeft == i > 1
                 hasRight == i < Len(kids)
             IN  IF hasLeft /\ Size(p.nodes[kids[i - 1]]) > MinEntries(p)
                 THEN BorrowLeft(p, par, i)
                 ELSE IF hasRight /\ Size(p.nodes[kids[i + 1]]) > MinEntries(p)
                 THEN BorrowRight(p, par, i)
                 ELSE LET m == Merge(p, par, IF hasLeft THEN i - 1 ELSE i)
                      IN  m \o Rebalance(Last(m), Front(path))

\* the key is stored: Lookup(p, c, k).slot > 0
Remove(p, c, k) ==
    LET path == PathTo(p.nodes, p.root, c, KeyEP(k))
        l == Last(path)
        node == p.nodes[l]
        i == SlotOf(node, c, k)
        p1 == [p EXCEPT !.nodes[l] = Leaf(RemoveAt(node.keys, i), RemoveAt(node.vals, i), node.next)]
        fix == Rebalance(p1, path)
    IN  <<p1>> \o fix \o <<Bump(IF fix = <<>> THEN p1 ELSE Last(fix), -1)>>

(***************************************************************************)
(* The sorted engine's operations (spec 4.3-4.5).  An engine call either   *)
(* returns a status or raises an exception (exc # "none").                 *)
(***************************************************************************)
NoComparator == ""

Returned(st) ==
    [exc |-> "none", status |-> st, what |-> <<>>, cnt |-> 0, out |-> <<>>, images |-> <<>>]
Raised(kind, st, text) ==
    [exc |-> kind, status |-> st, what |-> text, cnt |-> 0, out |-> <<>>, images |-> <<>>]

NewPool(name, size) ==
    [created |-> TRUE, cmp |-> name, size |-> size, degree |-> DEGREE, count |-> 0, root |-> 0,
     nodes |-> [n \in NodeIds |-> FreeNode]]
NoPool ==
    [created |-> FALSE, cmp |-> "", size |-> 0, degree |-> DEGREE, count |-> 0, root |-> 0,
     nodes |-> [n \in NodeIds |-> FreeNode]]

\* mutant: a pool library that opens the pool as the crash left it
Recover_none(p, u) == p

\* the pool library rolls an interrupted transaction back when the pool is opened
Recover(p, u) == IF u = <<>> THEN p ELSE u[1]

\* the comparator an engine works with: the supplied one, else the default
ActiveComparator(cfg) ==
    IF cfg.comparator = NoComparator THEN BinaryName ELSE cfg.comparator

\* mutant: an engine that writes the header before it validates the comparator
stree_open_header_first(p, u, cfg) ==
    LET q == Recover(p, u)
        name == ActiveComparator(cfg)
    IN  IF cfg.raises.exc # "none" THEN cfg.raises
        ELSE IF ~q.created
        THEN [Returned("OK") EXCEPT !.images = <<[NewPool(name, cfg.size) EXCEPT !.degree = q.degree]>>]
        ELSE IF q.cmp # name
        THEN [Raised("error", "COMPARATOR_MISMATCH",
                     <<"Comparator with name: ", q.cmp, " expected">>)
                 EXCEPT !.images = <<[q EXCEPT !.cmp = name]>>]
        ELSE [Returned("OK") EXCEPT !.images = <<q>>]

\* engine construction: open or create the pool, then validate the comparator;
\* cfg.raises: what the construction throws before it reaches the pool, if
\* anything (an allocation failure, a pool error, ...)
stree_open(p, u, cfg) ==
    LET q == Recover(p, u)
        name == ActiveComparator(cfg)
    IN  IF cfg.raises.exc # "none" THEN cfg.raises
        ELSE IF ~q.created
        THEN [Returned("OK") EXCEPT !.images = <<[NewPool(name, cfg.size) EXCEPT !.degree = q.degree]>>]
        ELSE IF q.cmp # name
        THEN [Raised("error", "COMPARATOR_MISMATCH",
                     <<"Comparator with name: ", q.cmp, " expected">>)
                 EXCEPT !.images = <<q>>]
        ELSE [Returned("OK") EXCEPT !.images = <<q>>]

stree_count_all(p) == [Returned("OK") EXCEPT !.cnt = p.count]

stree_count_between(p, c, lo, hi) ==
    [Returned("OK") EXCEPT !.cnt = Len(Traverse(p, c, lo, hi))]
stree_count_above(p, c, k) == stree_count_between(p, c, KeyEP(k), MAX_KEY)
stree_count_below(p, c, k) == stree_count_between(p, c, MIN_KEY, KeyEP(k))

\* the callback returns non-zero at its cb-th invocation; cb = 0: it never does
Deliver(es, cb) ==
    IF cb = 0 \/ Len(es) < cb THEN [Returned("OK") EXCEPT !.out = es]
    ELSE [Returned("STOPPED_BY_CB") EXCEPT !.out = SubSeq(es, 1, cb)]

stree_get_between(p, c, lo, hi, cb) == Deliver(Traverse(p, c, lo, hi), cb)
stree_get_above(p, c, k, cb) == stree_get_between(p, c, KeyEP(k), MAX_KEY, cb)
stree_get_below(p, c, k, cb) == stree_get_between(p, c, MIN_KEY, KeyEP(k), cb)
stree_get_all(p, c, cb) == stree_get_between(p, c, MIN_KEY, MAX_KEY, cb)

stree_exists(p, c, k) ==
    IF Lookup(p, c, k).slot = 0 THEN Returned("NOT_FOUND") ELSE Returned("OK")

\* the value goes to the caller's callback: out holds what it received
stree_get(p, c, k) ==
    LET at == Lookup(p, c, k)
    IN  IF at.slot = 0 THEN Returned("NOT_FOUND")
        ELSE [Returned("OK") EXCEPT !.out = <<p.nodes[at.leaf].vals[at.slot]>>]

\* a new entry needs room in the pool; without it the allocation fails
stree_put(p, c, k, v) ==
    IF Lookup(p, c, k).slot = 0 /\ p.count >= p.size
    THEN Raised("bad_alloc", "OUT_OF_MEMORY", <<"std::bad_alloc">>)
    ELSE [Returned("OK") EXCEPT !.images = Insert(p, c, k, v)]

stree_remove(p, c, k) ==
    IF Lookup(p, c, k).slot = 0 THEN Returned("NOT_FOUND")
    ELSE [Returned("OK") EXCEPT !.images = Remove(p, c, k)]

(***************************************************************************)
(* The public C surface, src/libpmemkv.cc.  A call yields the status it    *)
(* returns, the message it leaves in the last-error stream (<<>>: none),   *)
(* the outputs it hands back and the pool images its engine call wrote.    *)
(***************************************************************************)
\* mutant: no catch-all handler, so an exception that is neither an internal
\* error, a bad_alloc nor a runtime_error leaves the call
catch_and_return_status_no_catch_all(func_name, r) ==
    CASE r.exc = "none" ->
            [status |-> r.status, msg |-> <<>>, cnt |-> r.cnt, out |-> r.out, images |-> r.images]
      [] r.exc = "error" ->
            [status |-> r.status, msg |-> <<func_name>> \o r.what,
             cnt |-> 0, out |-> <<>>, images |-> <<>>]
      [] r.exc = "bad_alloc" ->
            [status |-> "OUT_OF_MEMORY", msg |-> <<func_name>> \o r.what,
             cnt |-> 0, out |-> <<>>, images |-> <<>>]
      [] r.exc = "runtime_error" ->
            [status |-> "FAILED", msg |-> <<func_name>> \o r.what,
             cnt |-> 0, out |-> <<>>, images |-> <<>>]
      [] OTHER ->
            [status |-> "EXCEPTION_ESCAPED", msg |-> <<>>,
             cnt |-> 0, out |-> <<>>, images |-> <<>>]

\* mutant: the runtime_error handler logs the message and reports success
catch_and_return_status_runtime_ok(func_name, r) ==
    CASE r.exc = "none" ->
            [status |-> r.status, msg |-> <<>>, cnt |-> r.cnt, out |-> r.out, images |-> r.images]
      [] r.exc = "error" ->
            [status |-> r.status, msg |-> <<func_name>> \o r.what,
             cnt |-> 0, out |-> <<>>, images |-> <<>>]
      [] r.exc = "bad_alloc" ->
            [status |-> "OUT_OF_MEMORY", msg |-> <<func_name>> \o r.what,
             cnt |-> 0, out |-> <<>>, images |-> <<>>]
      [] r.exc = "runtime_error" ->
            [status |-> "OK", msg |-> <<func_name>> \o r.what,
             cnt |-> 0, out |-> <<>>, images |-> <<>>]
      [] OTHER ->
            [status |-> "FAILED", msg |-> <<func_name, "Unspecified error">>,
             cnt |-> 0, out |-> <<>>, images |-> <<>>]

catch_and_return_status(func_name, r) ==
    CASE r.exc = "none" ->
            [status |-> r.status, msg |-> <<>>, cnt |-> r.cnt, out |-> r.out, images |-> r.images]
      [] r.exc = "error" ->
            [status |-> r.status, msg |-> <<func_name>> \o r.what,
             cnt |-> 0, out |-> <<>>, images |-> <<>>]
      [] r.exc = "bad_alloc" ->
            [status |-> "OUT_OF_MEMORY", msg |-> <<func_name>> \o r.what,
             cnt |-> 0, out |-> <<>>, images |-> <<>>]
      [] r.exc = "runtime_error" ->
            [status |-> "FAILED", msg |-> <<func_name>> \o r.what,
             cnt |-> 0, out |-> <<>>, images |-> <<>>]
      [] OTHER ->
            [status |-> "FAILED", msg |-> <<func_name, "Unspecified error">>,
             cnt |-> 0, out |-> <<>>, images |-> <<>>]

(***************************************************************************)
(* The configuration bag.  A binding has a name and a type; an object      *)
(* binding has the identity of its object and, when the object is a        *)
(* sub-configuration (disposer: pmemkv_config_delete), the bag it holds.   *)
(* items: the bindings in insertion order; log: the disposer invocations   *)
(* so far, in order; made: the objects created so far.                     *)
(***************************************************************************)
Binding(name, type, obj, sub) == [name |-> name, type |-> type, obj |-> obj, sub |-> sub]

NoBag == [alive |-> FALSE, items |-> <<>>, log |-> <<>>, made |-> 0, calls |-> 0]
NewBag == [NoBag EXCEPT !.alive = TRUE]

\* the disposer invocations of destroying a bag: the last inserted first; the
\* disposer of a sub-configuration destroys the bag it holds
RECURSIVE Destroy(_)
Destroy(items) ==
    IF items = <<>> THEN <<>>
    ELSE LET b == items[Len(items)]
         IN  (IF b.type = "object" THEN <<b.obj>> \o Destroy(b.sub) ELSE <<>>)
                \o Destroy(Front(items))

\* put_<kind>: a binding of the same name is replaced and its disposer invoked
BagPut(c, b) ==
    [c EXCEPT !.items = Append(SelectSeq(@, LAMBDA x : x.name # b.name), b),
              !.log = @ \o Destroy(SelectSeq(c.items, LAMBDA x : x.name = b.name))]

\* a JSON text: one that does not parse, or the members of the document in
\* order.  A member has a name, the kind of its value, for an object the
\* members of that object, and what goes wrong while it is loaded: "put",
\* the insertion into the bag fails; "alloc", no sub-configuration can be
\* allocated
NoDoc == [parses |-> FALSE, members |-> <<>>]
Doc(members) == [parses |-> TRUE, members |-> members]
Member(name, kind, sub, fault) == [name |-> name, kind |-> kind, sub |-> sub, fault |-> fault]

ScalarKinds == {"string", "int64", "double", "bool"}
TypeOf(kind) == IF kind = "bool" THEN "int64" ELSE kind
kTypeNames(kind) == IF kind = "null" THEN "Null" ELSE "Array"

Thrown(c, text) ==
    [status |-> "CONFIG_PARSING_ERROR", msg |-> <<"pmemkv_config_from_json", text>>,
     items |-> c.items, log |-> c.log, made |-> c.made]

RECURSIVE pmemkv_config_from_json(_, _)
RECURSIVE LoadMembers(_, _, _)
\* the loop over the members, from the i-th on
LoadMembers(c, ms, i) ==
    IF i > Len(ms)
    THEN [status |-> "OK", msg |-> <<>>, items |-> c.items, log |-> c.log, made |-> c.made]
    ELSE LET m == ms[i]
         IN  IF m.kind \in ScalarKinds
             THEN IF m.fault = "put"
                  THEN Thrown(c, "Inserting " \o m.kind \o " to the config failed")
                  ELSE LoadMembers(BagPut(c, Binding(m.name, TypeOf(m.kind), 0, <<>>)), ms, i + 1)
             ELSE IF m.kind = "object"
             THEN IF m.fault = "alloc"
                  THEN [status |-> "FAILED",
                        msg |-> <<"pmemkv_config_from_json", "Cannot allocate subconfig">>,
                        items |-> c.items, log |-> c.log, made |-> c.made]
                  ELSE LET sub_cfg == c.made + 1
                           r == pmemkv_config_from_json(
                                    [c EXCEPT !.items = <<>>, !.made = sub_cfg], Doc(m.sub))
                       IN  IF r.status # "OK"
                           THEN \* pmemkv_config_delete(sub_cfg)
                                Thrown([c EXCEPT !.log = r.log \o <<sub_cfg>> \o Destroy(r.items),
                                                 !.made = r.made],
                                       "Cannot parse subconfig")
                           ELSE IF m.fault = "put"
                           THEN \* sub_cfg is neither in the bag nor deleted
                                Thrown([c EXCEPT !.log = r.log, !.made = r.made],
                                       "Inserting a new entry to the config failed")
                           ELSE LoadMembers(
                                    BagPut([c EXCEPT !.log = r.log, !.made = r.made],
                                           Binding(m.name, "object", sub_cfg, r.items)),
                                    ms, i + 1)
             ELSE Thrown(c, "Unsupported data type in JSON string: " \o kTypeNames(m.kind))

\* mutant: a load that puts the bag back as it was when it fails
pmemkv_config_from_json_atomic(c, doc) ==
    IF ~doc.parses
    THEN [status |-> "CONFIG_PARSING_ERROR", msg |-> <<>>,
          items |-> c.items, log |-> c.log, made |-> c.made]
    ELSE LET r == LoadMembers(c, doc.members, 1)
         IN  IF r.status = "OK" THEN r ELSE [r EXCEPT !.items = c.items]

pmemkv_config_from_json(c, doc) ==
    IF ~doc.parses
    THEN [status |-> "CONFIG_PARSING_ERROR", msg |-> <<>>,
          items |-> c.items, log |-> c.log, made |-> c.made]
    ELSE LoadMembers(c, doc.members, 1)

\* value: an object of the caller's, with its disposer
pmemkv_config_put_object(c, key) ==
    BagPut([c EXCEPT !.made = @ + 1], Binding(key, "object", c.made + 1, <<>>))

pmemkv_config_delete(c) ==
    [c EXCEPT !.alive = FALSE, !.items = <<>>, !.log = @ \o Destroy(c.items)]

EngineNames == {"blackhole", "stree"}

\* mutant: an unknown engine name reported with the status named after it
pmemkv_open_wrong_engine_name(engine, cfg, dbIsNull, p, u) ==
    IF dbIsNull
    THEN [status |-> "INVALID_ARGUMENT", msg |-> <<>>, handle |-> "untouched",
          cmp |-> "", images |-> <<>>, config |-> "caller"]
    ELSE IF engine = "blackhole"
    THEN [status |-> "OK", msg |-> <<>>, handle |-> "engine", cmp |-> ActiveComparator(cfg),
          images |-> <<>>, config |-> "engine"]
    ELSE IF engine = "stree"
    THEN LET r == stree_open(p, u, cfg)
         IN  IF r.exc = "none"
             THEN [status |-> "OK", msg |-> <<>>, handle |-> "engine",
                   cmp |-> ActiveComparator(cfg), images |-> r.images, config |-> "engine"]
             ELSE IF r.exc \in {"error", "bad_alloc", "runtime_error"}
             THEN [status |-> "FAILED", msg |-> <<"pmemkv_open">> \o r.what,
                   handle |-> "null", cmp |-> "", images |-> r.images,
                   config |-> "destroyed"]
             ELSE [status |-> "FAILED", msg |-> <<"pmemkv_open", "Unspecified failure">>,
                   handle |-> "untouched", cmp |-> "", images |-> r.images,
                   config |-> "destroyed"]
    ELSE [status |-> "WRONG_ENGINE_NAME", msg |-> <<"pmemkv_open", "Unknown engine name">>,
          handle |-> "null", cmp |-> "", images |-> <<>>, config |-> "destroyed"]

\* mutant: an open that translates exceptions as the data calls do, handing
\* on the status an internal error carries and OUT_OF_MEMORY for bad_alloc
pmemkv_open_carried_status(engine, cfg, dbIsNull, p, u) ==
    IF dbIsNull
    THEN [status |-> "INVALID_ARGUMENT", msg |-> <<>>, handle |-> "untouched",
          cmp |-> "", images |-> <<>>, config |-> "caller"]
    ELSE IF engine = "blackhole"
    THEN [status |-> "OK", msg |-> <<>>, handle |-> "engine", cmp |-> ActiveComparator(cfg),
          images |-> <<>>, config |-> "engine"]
    ELSE IF engine = "stree"
    THEN LET r == stree_open(p, u, cfg)
         IN  IF r.exc = "none"
             THEN [status |-> "OK", msg |-> <<>>, handle |-> "engine",
                   cmp |-> ActiveComparator(cfg), images |-> r.images, config |-> "engine"]
             ELSE [status |-> catch_and_return_status("pmemkv_open", r).status,
                   msg |-> <<"pmemkv_open">> \o r.what,
                   handle |-> "null", cmp |-> "", images |-> r.images,
                   config |-> "destroyed"]
    ELSE [status |-> "FAILED", msg |-> <<"pmemkv_open", "Unknown engine name">>,
          handle |-> "null", cmp |-> "", images |-> <<>>, config |-> "destroyed"]

\* handle: what the call leaves in *db ("engine", "null", or "untouched");
\* config: who owns the configuration bag when the call returns ("engine",
\* "destroyed": the unique_ptr that had taken it deleted it, or "caller")
pmemkv_open(engine, cfg, dbIsNull, p, u) ==
    IF dbIsNull
    THEN [status |-> "INVALID_ARGUMENT", msg |-> <<>>, handle |-> "untouched",
          cmp |-> "", images |-> <<>>, config |-> "caller"]
    ELSE IF engine = "blackhole"
    THEN [status |-> "OK", msg |-> <<>>, handle |-> "engine", cmp |-> ActiveComparator(cfg),
          images |-> <<>>, config |-> "engine"]
    ELSE IF engine = "stree"
    THEN LET r == stree_open(p, u, cfg)
         IN  IF r.exc = "none"
             THEN [status |-> "OK", msg |-> <<>>, handle |-> "engine",
                   cmp |-> ActiveComparator(cfg), images |-> r.images, config |-> "engine"]
             ELSE IF r.exc \in {"error", "bad_alloc", "runtime_error"}
             THEN [status |-> "FAILED", msg |-> <<"pmemkv_open">> \o r.what,
                   handle |-> "null", cmp |-> "", images |-> r.images,
                   config |-> "destroyed"]
             ELSE [status |-> "FAILED", msg |-> <<"pmemkv_open", "Unspecified failure">>,
                   handle |-> "untouched", cmp |-> "", images |-> r.images,
                   config |-> "destroyed"]
    ELSE [status |-> "FAILED", msg |-> <<"pmemkv_open", "Unknown engine name">>,
          handle |-> "null", cmp |-> "", images |-> <<>>, config |-> "destroyed"]

\* mutant: count_all that never writes the caller's counter
pmemkv_count_all_unset(d, p) ==
    [catch_and_return_status("pmemkv_count_all", stree_count_all(p)) EXCEPT !.cnt = 0]
pmemkv_count_all(d, p) ==
    catch_and_return_status("pmemkv_count_all", stree_count_all(p))
\* mutant: count_above that forwards to the engine's count_below
pmemkv_count_above_as_below(d, p, k) ==
    catch_and_return_status("pmemkv_count_above", stree_count_below(p, d.cmp, k))
pmemkv_count_above(d, p, k) ==
    catch_and_return_status("pmemkv_count_above", stree_count_above(p, d.cmp, k))
pmemkv_count_below(d, p, k) ==
    catch_and_return_status("pmemkv_count_below", stree_count_below(p, d.cmp, k))
\* mutant: count_between that hands the two keys over in the wrong order
pmemkv_count_between_swapped(d, p, k1, k2) ==
    catch_and_return_status("pmemkv_count_between", stree_count_between(p, d.cmp, k2, k1))
pmemkv_count_between(d, p, k1, k2) ==
    catch_and_return_status("pmemkv_count_between", stree_count_between(p, d.cmp, k1, k2))
\* mutant: get_all that scans above the empty key instead of from MIN_KEY
pmemkv_get_all_above_empty(d, p, cb) ==
    catch_and_return_status("pmemkv_get_all", stree_get_above(p, d.cmp, <<>>, cb))
pmemkv_get_all(d, p, cb) ==
    catch_and_return_status("pmemkv_get_all", stree_get_all(p, d.cmp, cb))
\* mutant: get_above that runs the scan and then returns OK whatever it said
pmemkv_get_above_ok(d, p, k, cb) ==
    [catch_and_return_status("pmemkv_get_above", stree_get_above(p, d.cmp, k, cb))
        EXCEPT !.status = "OK"]
pmemkv_get_above(d, p, k, cb) ==
    catch_and_return_status("pmemkv_get_above", stree_get_above(p, d.cmp, k, cb))
\* mutant: get_below that forwards to the engine's get_above
pmemkv_get_below_as_above(d, p, k, cb) ==
    catch_and_return_status("pmemkv_get_below", stree_get_above(p, d.cmp, k, cb))
pmemkv_get_below(d, p, k, cb) ==
    catch_and_return_status("pmemkv_get_below", stree_get_below(p, d.cmp, k, cb))
\* mutant: get_between that takes the second key with the first key's length
pmemkv_get_between_kb1(d, p, k1, k2, cb) ==
    LET n == IF Len(k1[2]) < Len(k2[2]) THEN Len(k1[2]) ELSE Len(k2[2])
    IN  catch_and_return_status("pmemkv_get_between",
            stree_get_between(p, d.cmp, k1, <<k2[1], SubSeq(k2[2], 1, n)>>, cb))
pmemkv_get_between(d, p, k1, k2, cb) ==
    catch_and_return_status("pmemkv_get_between", stree_get_between(p, d.cmp, k1, k2, cb))
pmemkv_exists(d, p, k) ==
    catch_and_return_status("pmemkv_exists", stree_exists(p, d.cmp, k))
\* mutant: get that takes the key as a C string, up to its first NUL byte
RECURSIVE CStr(_)
CStr(k) == IF k = <<>> \/ Head(k) = 0 THEN <<>> ELSE <<Head(k)>> \o CStr(Tail(k))
pmemkv_get_cstr(d, p, k) ==
    catch_and_return_status("pmemkv_get", stree_get(p, d.cmp, CStr(k)))
pmemkv_get(d, p, k) ==
    catch_and_return_status("pmemkv_get", stree_get(p, d.cmp, k))
\* pmemkv_get_copy: the caller's buffer (null, or buffer_size bytes) and the
\* caller's value_size (null, or a cell: <<>> while unwritten)
NoBuffer == [null |-> TRUE, bytes |-> <<>>]
Buffer(bytes) == [null |-> FALSE, bytes |-> bytes]
NoCell == [null |-> TRUE, val |-> <<>>]
Cell == [null |-> FALSE, val |-> <<>>]
Zeros(n) == [i \in 1 .. n |-> 0]

\* memcpy(buffer, v, vb)
MemCpy(bytes, v) == v \o SubSeq(bytes, Len(v) + 1, Len(bytes))

\* mutant: a value as long as the buffer is accepted
get_copy_callback_le(v, c) ==
    LET c1 == IF c.value_size.null THEN c ELSE [c EXCEPT !.value_size.val = <<Len(v)>>]
    IN  IF Len(v) <= c.buffer_size
        THEN [c1 EXCEPT !.result = "OK",
                        !.buffer = IF c.buffer.null THEN @
                                   ELSE [@ EXCEPT !.bytes = MemCpy(@, v)]]
        ELSE [c1 EXCEPT !.result = "FAILED"]

\* c: the GetCopyCallbackContext
get_copy_callback(v, c) ==
    LET c1 == IF c.value_size.null THEN c ELSE [c EXCEPT !.value_size.val = <<Len(v)>>]
    IN  IF Len(v) < c.buffer_size
        THEN [c1 EXCEPT !.result = "OK",
                        !.buffer = IF c.buffer.null THEN @
                                   ELSE [@ EXCEPT !.bytes = MemCpy(@, v)]]
        ELSE [c1 EXCEPT !.result = "FAILED"]

\* mutant: get_copy that leaves the buffer as the caller handed it over
pmemkv_get_copy_no_memset(r, buffer, buffer_size, value_size) ==
    LET ctx0 == [result |-> "NOT_FOUND", buffer_size |-> buffer_size,
                 buffer |-> buffer, value_size |-> value_size]
        ctx == IF r.exc = "none" /\ r.out # <<>> THEN get_copy_callback(r.out[1], ctx0) ELSE ctx0
        st == catch_and_return_status("pmemkv_get_copy", r)
    IN  [status |-> IF st.status # "OK" THEN st.status ELSE ctx.result, msg |-> st.msg,
         cnt |-> 0, out |-> <<>>, images |-> <<>>,
         buffer |-> ctx.buffer, value_size |-> ctx.value_size]

\* r: what the engine's get does (it hands the value, if any, to the callback)
pmemkv_get_copy(r, buffer, buffer_size, value_size) ==
    LET ctx0 == [result |-> "NOT_FOUND", buffer_size |-> buffer_size,
                 buffer |-> IF buffer.null THEN buffer ELSE Buffer(Zeros(buffer_size)),
                 value_size |-> value_size]
        ctx == IF r.exc = "none" /\ r.out # <<>> THEN get_copy_callback(r.out[1], ctx0) ELSE ctx0
        st == catch_and_return_status("pmemkv_get_copy", r)
    IN  [status |-> IF st.status # "OK" THEN st.status ELSE ctx.result, msg |-> st.msg,
         cnt |-> 0, out |-> <<>>, images |-> <<>>,
         buffer |-> ctx.buffer, value_size |-> ctx.value_size]

\* mutant: put that takes the value with the key's length
pmemkv_put_vb_as_kb(d, p, k, v) ==
    LET n == IF Len(k) < Len(v) THEN Len(k) ELSE Len(v)
    IN  catch_and_return_status("pmemkv_put", stree_put(p, d.cmp, k, SubSeq(v, 1, n)))
pmemkv_put(d, p, k, v) ==
    catch_and_return_status("pmemkv_put", stree_put(p, d.cmp, k, v))
\* mutant: remove that takes the key as a C string, up to its first NUL byte
pmemkv_remove_cstr(d, p, k) ==
    catch_and_return_status("pmemkv_remove", stree_remove(p, d.cmp, CStr(k)))
\* mutant: remove that calls the engine and then returns OK whatever it said
pmemkv_remove_ok(d, p, k) ==
    [catch_and_return_status("pmemkv_remove", stree_remove(p, d.cmp, k)) EXCEPT !.status = "OK"]
pmemkv_remove(d, p, k) ==
    catch_and_return_status("pmemkv_remove", stree_remove(p, d.cmp, k))

(***************************************************************************)
(* State and actions.                                                      *)
(***************************************************************************)
Closed == [handle |-> "null", engine |-> "", cmp |-> ""]

BaseRet ==
    [op |-> "none", name |-> "", cmp |-> "", k |-> <<>>, v |-> <<>>,
     lo |-> MIN_KEY, hi |-> MIN_KEY, cb |-> 0, status |-> "OK", cnt |-> 0, out |-> <<>>,
     note |-> "", raised |-> Returned("OK"), handle |-> "", config |-> "",
     buffer |-> NoBuffer, value_size |-> NoCell, nulldb |-> FALSE,
     doc |-> NoDoc]

Configs == [comparator : {NoComparator, InvalidName}, size : {SIZE}, raises : {Returned("OK")}]
OpenNames == EngineNames \cup {"nosuch"}

Init ==
    /\ pool = NoPool
    /\ undo = <<>>
    /\ pending = <<>>
    /\ db = Closed
    /\ errormsg = <<>>
    /\ ret = BaseRet
    /\ live = {}
    /\ bag = NoBag

Serving == db.handle = "engine" /\ db.engine = "stree" /\ undo = <<>>

\* the last-error stream after a call that left the message msg
Logged(msg) == IF msg = <<>> THEN errormsg ELSE msg

Open(engine, cfg, dbIsNull) ==
    /\ db.handle = "null"
    /\ LET r == pmemkv_open(engine, cfg, dbIsNull, pool, undo)
       IN  /\ pool' = IF r.images = <<>> THEN pool ELSE r.images[1]
           /\ undo' = IF r.images = <<>> THEN undo ELSE <<>>
           /\ db' = IF r.handle = "engine"
                    THEN [handle |-> "engine", engine |-> engine, cmp |-> r.cmp]
                    ELSE db
           /\ errormsg' = Logged(r.msg)
           \* note: whether opening the pool rolled an interrupted transaction back
           /\ ret' = [BaseRet EXCEPT !.op = "open", !.name = engine,
                                     !.cmp = cfg.comparator, !.status = r.status,
                                     !.handle = r.handle, !.config = r.config,
                                     !.raised = cfg.raises, !.nulldb = dbIsNull,
                                     !.note = IF r.images # <<>> /\ undo # <<>>
                                              THEN "rolled_back" ELSE ""]
    /\ UNCHANGED <<pending, live, bag>>

\* mutant: a close whose engine destructor frees the persistent tree along
\* with the engine's transient state
Close_freeing_tree ==
    /\ db.handle = "engine"
    /\ undo = <<>>
    /\ db' = Closed
    /\ pool' = IF db.engine = "stree" THEN [pool EXCEPT !.root = 0, !.count = 0] ELSE pool
    /\ ret' = [BaseRet EXCEPT !.op = "close"]
    /\ UNCHANGED <<undo, pending, errormsg, live, bag>>

Close ==
    /\ db.handle = "engine"
    /\ undo = <<>>
    /\ db' = Closed
    /\ ret' = [BaseRet EXCEPT !.op = "close"]
    /\ UNCHANGED <<pool, undo, pending, errormsg, live, bag>>

\* a query: nothing durable changes
Query(op, r) ==
    /\ errormsg' = Logged(r.msg)
    /\ ret' = [op EXCEPT !.status = r.status, !.cnt = r.cnt, !.out = r.out]
    /\ UNCHANGED <<pool, undo, pending, db, live, bag>>

CountAll ==
    /\ Serving
    /\ Query([BaseRet EXCEPT !.op = "count_all"], pmemkv_count_all(db, pool))

CountAbove(k) ==
    /\ Serving
    /\ Query([BaseRet EXCEPT !.op = "count_above", !.k = k], pmemkv_count_above(db, pool, k))

CountBelow(k) ==
    /\ Serving
    /\ Query([BaseRet EXCEPT !.op = "count_below", !.k = k], pmemkv_count_below(db, pool, k))

CountBetween(k1, k2) ==
    /\ Serving
    /\ Query([BaseRet EXCEPT !.op = "count_between", !.lo = k1, !.hi = k2],
             pmemkv_count_between(db, pool, k1, k2))

GetAll(cb) ==
    /\ Serving
    /\ Query([BaseRet EXCEPT !.op = "get_all", !.cb = cb], pmemkv_get_all(db, pool, cb))

GetAbove(k, cb) ==
    /\ Serving
    /\ Query([BaseRet EXCEPT !.op = "get_above", !.k = k, !.cb = cb],
             pmemkv_get_above(db, pool, k, cb))

GetBelow(k, cb) ==
    /\ Serving
    /\ Query([BaseRet EXCEPT !.op = "get_below", !.k = k, !.cb = cb],
             pmemkv_get_below(db, pool, k, cb))

GetBetween(k1, k2, cb) ==
    /\ Serving
    /\ Query([BaseRet EXCEPT !.op = "get_between", !.lo = k1, !.hi = k2, !.cb = cb],
             pmemkv_get_between(db, pool, k1, k2, cb))

Exists(k) ==
    /\ Serving
    /\ Query([BaseRet EXCEPT !.op = "exists", !.k = k], pmemkv_exists(db, pool, k))

Get(k) ==
    /\ Serving
    /\ Query([BaseRet EXCEPT !.op = "get", !.k = k], pmemkv_get(db, pool, k))

\* the entries live once key k holds value v
WithEntry(s, k, v) == {e \in s : e[1] # k} \cup {<<k, v>>}
WithoutKey(s, k) == {e \in s : e[1] # k}

\* put and remove, each one transaction from begin to commit
Put(k, v) ==
    /\ Serving
    /\ LET r == pmemkv_put(db, pool, k, v)
       IN  /\ pool' = IF r.images = <<>> THEN pool ELSE Last(r.images)
           /\ live' = IF r.status = "OK" THEN WithEntry(live, k, v) ELSE live
           /\ errormsg' = Logged(r.msg)
           \* note: whether the key was stored when the call was made
           /\ ret' = [BaseRet EXCEPT !.op = "put", !.k = k, !.v = v, !.status = r.status,
                                     !.note = IF \E e \in live : e[1] = k
                                              THEN "replaced" ELSE ""]
    /\ UNCHANGED <<undo, pending, db, bag>>

RemoveKey(k) ==
    /\ Serving
    /\ LET r == pmemkv_remove(db, pool, k)
       IN  /\ pool' = IF r.images = <<>> THEN pool ELSE Last(r.images)
           /\ live' = IF r.status = "OK" THEN WithoutKey(live, k) ELSE live
           /\ errormsg' = Logged(r.msg)
           /\ ret' = [BaseRet EXCEPT !.op = "remove", !.k = k, !.status = r.status]
    /\ UNCHANGED <<undo, pending, db, bag>>

\* the calls every specification below offers: open, close, put, remove
Lifecycle(names, values) ==
    \/ \E e \in names, cfg \in Configs, n \in BOOLEAN : Open(e, cfg, n)
    \/ Close
    \/ \E k \in Keys, v \in values : Put(k, v)
    \/ \E k \in Keys : RemoveKey(k)

\* the point surface: lifecycle, exists, get, count_all
Next ==
    \/ Lifecycle(OpenNames, Values)
    \/ \E k \in Keys : Exists(k)
    \/ \E k \in Keys : Get(k)
    \/ CountAll

Spec == Init /\ [][Next]_vars

\* the range surface: lifecycle, the counts and the scans
RangeValues == {<<1, 0>>}

NextRange ==
    \/ Lifecycle({"stree"}, RangeValues)
    \/ CountAll
    \/ \E k \in Keys : CountAbove(k)
    \/ \E k \in Keys : CountBelow(k)
    \/ \E k1 \in EndPoints, k2 \in EndPoints : CountBetween(k1, k2)
    \/ GetAll(0)
    \/ \E k \in Keys : GetAbove(k, 0)
    \/ \E k \in Keys : GetBelow(k, 0)
    \/ \E k1 \in EndPoints, k2 \in EndPoints : GetBetween(k1, k2, 0)

SpecRange == Init /\ [][NextRange]_vars

\* replacement puts: values of the same, a longer and a shorter length
ReplaceValues == {<<>>, <<0>>, <<1>>}

NextReplace ==
    \/ Lifecycle({"stree"}, ReplaceValues)
    \/ \E k \in Keys : Get(k)
    \/ CountAll

SpecReplace == Init /\ [][NextReplace]_vars

\* scans with a callback that returns non-zero at one of its first MaxStop
\* invocations, or never (0)
MaxStop == 2
Callbacks == 0 .. MaxStop

NextScan ==
    \/ Lifecycle({"stree"}, RangeValues)
    \/ \E cb \in Callbacks : GetAll(cb)
    \/ \E k \in Keys, cb \in Callbacks : GetAbove(k, cb)
    \/ \E k \in Keys, cb \in Callbacks : GetBelow(k, cb)
    \/ \E k1 \in EndPoints, k2 \in EndPoints, cb \in Callbacks : GetBetween(k1, k2, cb)

SpecScan == Init /\ [][NextScan]_vars

(***************************************************************************)
(* Transactions step by step (spec 5, "Transactional discipline"): a       *)
(* mutation begins its transaction, makes its durable writes one by one    *)
(* and commits; the process may terminate at any point in between.  The    *)
(* pool library keeps the image at begin until the commit.                 *)
(***************************************************************************)
BeginPut(k, v) ==
    /\ Serving
    /\ LET r == pmemkv_put(db, pool, k, v)
       IN  /\ undo' = IF r.images = <<>> THEN undo ELSE <<pool>>
           /\ pending' = r.images
           /\ errormsg' = Logged(r.msg)
           /\ ret' = [BaseRet EXCEPT !.op = "put", !.k = k, !.v = v,
                                     !.status = IF r.images = <<>> THEN r.status ELSE "RUNNING"]
    /\ UNCHANGED <<pool, db, live, bag>>

BeginRemove(k) ==
    /\ Serving
    /\ LET r == pmemkv_remove(db, pool, k)
       IN  /\ undo' = IF r.images = <<>> THEN undo ELSE <<pool>>
           /\ pending' = r.images
           /\ errormsg' = Logged(r.msg)
           /\ ret' = [BaseRet EXCEPT !.op = "remove", !.k = k,
                                     !.status = IF r.images = <<>> THEN r.status ELSE "RUNNING"]
    /\ UNCHANGED <<pool, db, live, bag>>

\* one durable write of the running transaction
TxWrite ==
    /\ db.handle = "engine"
    /\ pending # <<>>
    /\ pool' = Head(pending)
    /\ pending' = Tail(pending)
    /\ UNCHANGED <<undo, db, errormsg, ret, live, bag>>

TxCommit ==
    /\ db.handle = "engine"
    /\ undo # <<>>
    /\ pending = <<>>
    /\ undo' = <<>>
    /\ live' = IF ret.op = "put" THEN WithEntry(live, ret.k, ret.v) ELSE WithoutKey(live, ret.k)
    /\ ret' = [ret EXCEPT !.status = "OK"]
    /\ UNCHANGED <<pool, pending, db, errormsg, bag>>

\* the process terminates: the handle, the running call and the thread's
\* last-error message are gone; the pool file stays as it is
Crash ==
    /\ db.handle = "engine"
    /\ db' = Closed
    /\ pending' = <<>>
    /\ errormsg' = <<>>
    /\ ret' = [BaseRet EXCEPT !.op = "crash"]
    /\ UNCHANGED <<pool, undo, live, bag>>

NextCrash ==
    \/ \E cfg \in Configs : Open("stree", cfg, FALSE)
    \/ Close
    \/ \E k \in Keys, v \in RangeValues : BeginPut(k, v)
    \/ \E k \in Keys : BeginRemove(k)
    \/ TxWrite
    \/ TxCommit
    \/ Crash

SpecCrash == Init /\ [][NextCrash]_vars

(***************************************************************************)
(* A failure inside a transaction (spec 4.5, 6): an allocation failure, a  *)
(* transaction-scope error or any other exception raised between begin and *)
(* commit aborts the transaction, which restores the image at begin; the   *)
(* exception then reaches the public boundary.                             *)
(***************************************************************************)
TxFaults ==
    { Raised("bad_alloc", "OUT_OF_MEMORY", <<"std::bad_alloc">>),
      Raised("error", "TRANSACTION_SCOPE_ERROR", <<"transaction scope error">>),
      Raised("runtime_error", "FAILED", <<"transaction aborted">>) }

TxAbort(f) ==
    /\ db.handle = "engine"
    /\ undo # <<>>
    /\ LET r == catch_and_return_status(
                    IF ret.op = "put" THEN "pmemkv_put" ELSE "pmemkv_remove", f)
       IN  /\ pool' = Recover(pool, undo)
           /\ undo' = <<>>
           /\ pending' = <<>>
           /\ errormsg' = Logged(r.msg)
           /\ ret' = [ret EXCEPT !.status = r.status]
    /\ UNCHANGED <<db, live, bag>>

DefaultConfig == [comparator |-> NoComparator, size |-> SIZE, raises |-> Returned("OK")]

NextAbort ==
    \/ Open("stree", DefaultConfig, FALSE)
    \/ Close
    \/ \E k \in Keys, v \in RangeValues : BeginPut(k, v)
    \/ \E k \in Keys : BeginRemove(k)
    \/ TxWrite
    \/ TxCommit
    \/ \E f \in TxFaults : TxAbort(f)

SpecAbort == Init /\ [][NextAbort]_vars

(***************************************************************************)
(* Exceptions at the public boundary: every data and config call runs its  *)
(* engine or bag call inside catch_and_return_status, and the engine or    *)
(* the bag may raise.                                                      *)
(***************************************************************************)
DataCalls ==
    {"pmemkv_count_all", "pmemkv_count_above", "pmemkv_count_below", "pmemkv_count_between",
     "pmemkv_get_all", "pmemkv_get_above", "pmemkv_get_below", "pmemkv_get_between",
     "pmemkv_exists", "pmemkv_get", "pmemkv_put", "pmemkv_remove"}

ConfigCalls ==
    {"pmemkv_config_put_data", "pmemkv_config_put_object", "pmemkv_config_put_int64",
     "pmemkv_config_put_uint64", "pmemkv_config_put_double", "pmemkv_config_put_string",
     "pmemkv_config_get_data", "pmemkv_config_get_object", "pmemkv_config_get_int64",
     "pmemkv_config_get_uint64", "pmemkv_config_get_double", "pmemkv_config_get_string"}

\* what an engine or a bag may raise: an internal error carrying a status,
\* an allocation failure, a runtime_error, anything else
Exceptions ==
    { Raised("error", "NOT_SUPPORTED", <<"Not supported">>),
      Raised("error", "CONFIG_TYPE_ERROR", <<"Item has wrong type">>),
      Raised("bad_alloc", "", <<"std::bad_alloc">>),
      Raised("runtime_error", "", <<"pool error">>),
      Raised("other", "", <<"std::logic_error">>) }

\* the call func, whose engine or bag call raises f
EngineRaises(func, f) ==
    /\ func \in DataCalls => Serving
    /\ LET r == catch_and_return_status(func, f)
       IN  /\ errormsg' = Logged(r.msg)
           /\ ret' = [BaseRet EXCEPT !.op = func, !.status = r.status, !.raised = f]
    /\ UNCHANGED <<pool, undo, pending, db, live, bag>>

NextFault ==
    \/ Open("stree", DefaultConfig, FALSE)
    \/ Close
    \/ \E func \in DataCalls \cup ConfigCalls, f \in Exceptions : EngineRaises(func, f)

SpecFault == Init /\ [][NextFault]_vars

\* opens whose engine construction throws
FaultyConfigs == {[DefaultConfig EXCEPT !.raises = f] : f \in Exceptions}

NextOpen ==
    \/ Lifecycle(OpenNames, {<<>>})
    \/ \E e \in OpenNames, cfg \in FaultyConfigs, n \in BOOLEAN : Open(e, cfg, n)

SpecOpen == Init /\ [][NextOpen]_vars

\* get_copy into a buffer of n bytes that hold 1s when handed over
MaxBuffer == 3
Garbage(n) == [i \in 1 .. n |-> 1]
CopyKeys == {<<1>>, <<1, 0>>}
CopyValues == {<<>>, <<1>>, <<1, 1>>}

GetCopyOf(k, r, n, bufNull, vsNull) ==
    /\ Serving
    /\ LET buffer == IF bufNull THEN NoBuffer ELSE Buffer(Garbage(n))
           c == pmemkv_get_copy(r, buffer, n, IF vsNull THEN NoCell ELSE Cell)
       IN  /\ errormsg' = Logged(c.msg)
           /\ ret' = [BaseRet EXCEPT !.op = "get_copy", !.k = k, !.cnt = n,
                                     !.status = c.status, !.raised = r,
                                     !.buffer = c.buffer, !.value_size = c.value_size]
    /\ UNCHANGED <<pool, undo, pending, db, live, bag>>

GetCopy(k, n, bufNull, vsNull) ==
    GetCopyOf(k, stree_get(pool, db.cmp, k), n, bufNull, vsNull)

\* an engine whose get returns OK and never calls the callback
GetCopySilent(k, n, bufNull, vsNull) ==
    GetCopyOf(k, Returned("OK"), n, bufNull, vsNull)

NextCopy ==
    \/ Open("stree", DefaultConfig, FALSE)
    \/ Close
    \/ \E k \in CopyKeys, v \in CopyValues : Put(k, v)
    \/ \E k \in Keys, n \in 0 .. MaxBuffer, b \in BOOLEAN, s \in BOOLEAN : GetCopy(k, n, b, s)
    \/ \E k \in Keys, n \in 0 .. MaxBuffer, b \in BOOLEAN, s \in BOOLEAN :
          GetCopySilent(k, n, b, s)

SpecCopy == Init /\ [][NextCopy]_vars

\* the large tree: the numbers 1 .. LARGE_LIMIT as decimal strings, each with
\* its own value, put in any order
RECURSIVE to_string(_)
to_string(i) == IF i < 10 THEN <<48 + i>> ELSE to_string(i \div 10) \o <<48 + (i % 10)>>
ValueOf(i) == to_string(i) \o <<33>>
LargeKeys == {to_string(i) : i \in 1 .. LARGE_LIMIT}
LargeConfig == [DefaultConfig EXCEPT !.size = LARGE_SIZE]

NextLarge ==
    \/ Open("stree", LargeConfig, FALSE)
    \/ Close
    \/ \E i \in 1 .. LARGE_LIMIT : Put(to_string(i), ValueOf(i))
    \/ \E i \in 1 .. LARGE_LIMIT : Get(to_string(i))
    \/ CountAll

SpecLarge == Init /\ [][NextLarge]_vars

\* node occupancy: a build with DEGREE and one with DEGREE + 1, puts and
\* removes of the keys 1 .. BALANCE_LIMIT as transactions that commit or abort
BALANCE_LIMIT == 5
BalanceKeys == {to_string(i) : i \in 1 .. BALANCE_LIMIT}

InitBalance ==
    /\ pool \in {[NoPool EXCEPT !.degree = d] : d \in Degrees}
    /\ undo = <<>>
    /\ pending = <<>>
    /\ db = Closed
    /\ errormsg = <<>>
    /\ ret = BaseRet
    /\ live = {}
    /\ bag = NoBag

NextBalance ==
    \/ Open("stree", LargeConfig, FALSE)
    \/ Close
    \/ \E k \in BalanceKeys : BeginPut(k, <<>>)
    \/ \E k \in BalanceKeys : BeginRemove(k)
    \/ TxWrite
    \/ TxCommit
    \/ TxAbort(Raised("runtime_error", "FAILED", <<"transaction aborted">>))

SpecBalance == InitBalance /\ [][NextBalance]_vars

\* building a configuration: bounds on the names, the documents and the calls
Names == {"a", "b"}
MaxMembers == 2
MaxCalls == 2

SubDocs ==
    {<<>>} \cup {<<Member("a", "int64", <<>>, "none")>>, <<Member("a", "null", <<>>, "none")>>,
                 <<Member("a", "object", <<>>, "none")>>}

Members ==
    {Member(n, k, <<>>, "none") : n \in Names, k \in {"string", "bool", "null", "array"}}
        \cup {Member(n, "object", d, f) : n \in Names, d \in SubDocs, f \in {"none", "put", "alloc"}}

Docs ==
    {NoDoc} \cup {Doc(ms) : ms \in UNION {[1 .. n -> Members] : n \in 0 .. MaxMembers}}

ConfigNew ==
    /\ ~bag.alive
    /\ bag' = NewBag
    /\ ret' = [BaseRet EXCEPT !.op = "config_new"]
    /\ UNCHANGED <<pool, undo, pending, db, errormsg, live>>

ConfigCall == bag.alive /\ bag.calls < MaxCalls

ConfigPutObject(key) ==
    /\ ConfigCall
    /\ bag' = [pmemkv_config_put_object(bag, key) EXCEPT !.calls = @ + 1]
    /\ ret' = [BaseRet EXCEPT !.op = "config_put_object", !.name = key]
    /\ UNCHANGED <<pool, undo, pending, db, errormsg, live>>

ConfigFromJson(doc) ==
    /\ ConfigCall
    /\ LET r == pmemkv_config_from_json(bag, doc)
       IN  /\ bag' = [bag EXCEPT !.items = r.items, !.log = r.log, !.made = r.made,
                                 !.calls = @ + 1]
           /\ errormsg' = Logged(r.msg)
           /\ ret' = [BaseRet EXCEPT !.op = "config_from_json", !.status = r.status,
                                     !.doc = doc]
    /\ UNCHANGED <<pool, undo, pending, db, live>>

ConfigDelete ==
    /\ bag.alive
    /\ bag' = pmemkv_config_delete(bag)
    /\ ret' = [BaseRet EXCEPT !.op = "config_delete"]
    /\ UNCHANGED <<pool, undo, pending, db, errormsg, live>>

NextConfig ==
    \/ ConfigNew
    \/ \E key \in Names : ConfigPutObject(key)
    \/ \E doc \in Docs : ConfigFromJson(doc)
    \/ ConfigDelete

SpecConfig == Init /\ [][NextConfig]_vars

(***************************************************************************)
(* What the claims are stated in: the live entries in comparator order,    *)
(* computed from the set of live entries alone.                            *)
(***************************************************************************)
RECURSIVE SortedEntries(_, _)
SortedEntries(c, S) ==
    IF S = {} THEN <<>>
    ELSE LET m == CHOOSE e \in S : \A f \in S : Compare(c, e[1], f[1]) <= 0
         IN  <<m>> \o SortedEntries(c, S \ {m})

LiveKeys == {e[1] : e \in live}
Stored(k) == k \in LiveKeys

\* the full listing a caller takes of the open store: every key with its
\* value, and count_all
FullListing(d, p) ==
    [entries |-> pmemkv_get_all(d, p, 0).out, count |-> pmemkv_count_all(d, p).cnt]

\* the comparator a caller passed to open, by name
Requested(cmp) == IF cmp = NoComparator THEN BinaryName ELSE cmp

(***************************************************************************)
(* C1  Reopen round-trip.  Closing the engine changes nothing durable, and *)
(* an open of the pool with the same comparator that returns OK finds the  *)
(* full listing (every key, its value, count_all) that the puts and        *)
(* removes before the close had produced.                                  *)
(***************************************************************************)
ReopenedOK ==
    /\ ret.op = "open"
    /\ ret.status = "OK"
    /\ ret.name = "stree"

C1_ReopenRoundTrip ==
    [][ /\ (ret'.op = "close" => pool' = pool /\ undo' = undo /\ live' = live)
        /\ (ReopenedOK' =>
               /\ FullListing(db', pool') =
                     [entries |-> SortedEntries(pool.cmp, live), count |-> Cardinality(live)]
               /\ pool.created => pool' = pool) ]_vars

C1_Witness ==
    /\ ReopenedOK
    /\ Cardinality(live) = 3
    /\ ret.cmp = NoComparator
    /\ \E e \in live : e[2] = <<1, 0>>
    /\ \E e \in live : e[2] = <<>>

(***************************************************************************)
(* C2  Crash round-trip.  Whenever the process has terminated, at any      *)
(* point of a put or remove, the next open that returns OK finds the store *)
(* as of the last committed transaction: the interrupted mutation is       *)
(* entirely absent, no transaction is left open and nothing of its writes  *)
(* remains in the pool.                                                    *)
(***************************************************************************)
C2_CrashRoundTrip ==
    [][ (ret.op = "crash" /\ ReopenedOK') =>
            /\ undo' = <<>>
            /\ pool' = Recover(pool, undo)
            /\ pool'.count = Cardinality(live)
            /\ pmemkv_get_all(db', pool', 0).out = SortedEntries(db'.cmp, live)
            /\ \A k \in Keys :
                 pmemkv_exists(db', pool', k).status = (IF Stored(k) THEN "OK" ELSE "NOT_FOUND") ]_vars

\* an open after a crash in the middle of a transaction, which rolled the
\* transaction's writes back, with two entries committed before
C2_Witness ==
    /\ ReopenedOK
    /\ ret.note = "rolled_back"
    /\ Cardinality(live) = 2
    /\ pool.root # 0
    /\ pool.nodes[pool.root].kind = "leaf"

(***************************************************************************)
(* C3  Opening an existing pool with a comparator whose name differs from  *)
(* the persisted one returns COMPARATOR_MISMATCH and leaves a diagnostic   *)
(* that names the expected comparator.                                     *)
(***************************************************************************)
MismatchedOpen ==
    /\ ret.op = "open"
    /\ ret.name = "stree"
    /\ ret.status # "INVALID_ARGUMENT"
    /\ pool.created
    /\ pool.cmp # Requested(ret.cmp)

C3_ComparatorMismatchStatus ==
    MismatchedOpen =>
        /\ ret.status = "COMPARATOR_MISMATCH"
        /\ errormsg = <<"pmemkv_open", "Comparator with name: ", pool.cmp, " expected">>

(***************************************************************************)
(* C4  An open refused for a comparator mismatch does not alter the pool:  *)
(* comparator name, element count and every stored entry stay, no engine   *)
(* is handed out, and a later open with the matching comparator returns OK *)
(* and lists the same contents.                                            *)
(***************************************************************************)
C4_RefusedOpenLeavesPool ==
    [][ /\ (MismatchedOpen' =>
               /\ ret'.status # "OK"
               /\ pool' = pool
               /\ live' = live
               /\ db'.handle = "null")
        /\ (ret'.op = "open" /\ ret'.name = "stree" /\ ret'.status # "INVALID_ARGUMENT"
              /\ pool.created /\ pool.cmp = Requested(ret'.cmp) =>
               /\ ret'.status = "OK"
               /\ pmemkv_get_all(db', pool', 0).out = SortedEntries(pool.cmp, live)) ]_vars

C4_Witness ==
    /\ MismatchedOpen
    /\ pool.cmp = BinaryName
    /\ pool.count = 3
    /\ db.handle = "null"

(***************************************************************************)
(* C5  At every quiescent point count_all is the number of distinct live   *)
(* keys: keys put and not removed since.                                   *)
(***************************************************************************)
C5_CountAllIsLiveKeys ==
    Serving =>
        /\ pmemkv_count_all(db, pool).status = "OK"
        /\ pmemkv_count_all(db, pool).cnt = Cardinality(LiveKeys)
        /\ (ret.op = "count_all" => ret.cnt = Cardinality(LiveKeys))

\* count_all answered 2 on a tree that has split
C5_Witness ==
    /\ ret.op = "count_all"
    /\ ret.status = "OK"
    /\ ret.cnt = 2
    /\ Cardinality(LiveKeys) = 2
    /\ pool.nodes[pool.root].kind = "inner"

(***************************************************************************)
(* C6  Immediately after put(k, v) returns OK, exists(k) returns OK and    *)
(* get(k) returns OK delivering exactly v.                                 *)
(***************************************************************************)
C6_PutThenGet ==
    (db.handle = "engine" /\ ret.op = "put" /\ ret.status = "OK") =>
        /\ pmemkv_exists(db, pool, ret.k).status = "OK"
        /\ pmemkv_get(db, pool, ret.k).status = "OK"
        /\ pmemkv_get(db, pool, ret.k).out = <<ret.v>>

\* a put of a NUL-carrying value under a key with a NUL byte, into a tree
\* that has split
C6_Witness ==
    /\ ret.op = "put"
    /\ ret.status = "OK"
    /\ ret.k = <<1, 0>>
    /\ ret.v = <<1, 0>>
    /\ pool.root # 0
    /\ pool.nodes[pool.root].kind = "inner"

\* the live entries strictly between two endpoints under comparator c
Within(c, lo, hi) ==
    {e \in live : /\ CompareEndPoint(c, lo, KeyEP(e[1])) < 0
                  /\ CompareEndPoint(c, KeyEP(e[1]), hi) < 0}

(***************************************************************************)
(* C7  For k1 < k2 under the active comparator, get_between(k1, k2) yields *)
(* exactly the entries whose keys x satisfy k1 < x < k2, in ascending      *)
(* comparator order, without duplicates.                                   *)
(***************************************************************************)
C7_GetBetweenExact ==
    (ret.op = "get_between" /\ CompareEndPoint(db.cmp, ret.lo, ret.hi) < 0) =>
        /\ ret.status = "OK"
        /\ ret.out = SortedEntries(db.cmp, Within(db.cmp, ret.lo, ret.hi))
        /\ \A i \in 1 .. Len(ret.out), j \in 1 .. Len(ret.out) :
             i < j => Compare(db.cmp, ret.out[i][1], ret.out[j][1]) < 0

\* a scan between two keys that leaves a stored key out on either side and
\* crosses a leaf boundary
C7_Witness ==
    /\ ret.op = "get_between"
    /\ ret.lo = KeyEP(<<0>>)
    /\ ret.hi = KeyEP(<<1, 0>>)
    /\ db.cmp = BinaryName
    /\ ret.out = <<(<<(<<1>>), (<<1, 0>>)>>)>>
    /\ LiveKeys = {<<0>>, <<1>>, <<1, 0>>}
    /\ pool.nodes[pool.root].kind = "inner"

(***************************************************************************)
(* C8  When compare(k1, k2) >= 0, get_between(k1, k2) visits nothing and   *)
(* returns success, and count_between(k1, k2) returns 0.                   *)
(***************************************************************************)
C8_EmptyRange ==
    /\ (ret.op \in {"get_between", "count_between"}
          /\ CompareEndPoint(db.cmp, ret.lo, ret.hi) >= 0) =>
           /\ ret.status = "OK"
           /\ ret.out = <<>>
           /\ ret.cnt = 0
    /\ Serving =>
         \A k1 \in EndPoints, k2 \in EndPoints :
            CompareEndPoint(db.cmp, k1, k2) >= 0 =>
               /\ pmemkv_count_between(db, pool, k1, k2).status = "OK"
               /\ pmemkv_count_between(db, pool, k1, k2).cnt = 0
               /\ pmemkv_get_between(db, pool, k1, k2, 0).status = "OK"
               /\ pmemkv_get_between(db, pool, k1, k2, 0).out = <<>>

\* a scan whose endpoints are reversed around two stored keys
C8_Witness ==
    /\ ret.op = "get_between"
    /\ ret.lo = KeyEP(<<1, 0>>)
    /\ ret.hi = KeyEP(<<>>)
    /\ db.cmp = BinaryName
    /\ {<<0>>, <<1>>} \subseteq LiveKeys

(***************************************************************************)
(* C9  For every range, count_between(k1, k2) equals the number of entries *)
(* get_between(k1, k2) delivers; likewise count_above and get_above,       *)
(* count_below and get_below, count_all and get_all.                       *)
(***************************************************************************)
C9_CountsMatchScans ==
    Serving =>
        /\ pmemkv_count_all(db, pool).cnt = Len(pmemkv_get_all(db, pool, 0).out)
        /\ \A k \in Keys :
             /\ pmemkv_count_above(db, pool, k).cnt = Len(pmemkv_get_above(db, pool, k, 0).out)
             /\ pmemkv_count_below(db, pool, k).cnt = Len(pmemkv_get_below(db, pool, k, 0).out)
        /\ \A k1 \in EndPoints, k2 \in EndPoints :
             pmemkv_count_between(db, pool, k1, k2).cnt
                = Len(pmemkv_get_between(db, pool, k1, k2, 0).out)

\* count_between answered 2 for a range inside a full store
C9_Witness ==
    /\ ret.op = "count_between"
    /\ ret.lo = KeyEP(<<>>)
    /\ ret.hi = KeyEP(<<1, 0>>)
    /\ ret.cnt = 2
    /\ Len(pmemkv_get_between(db, pool, ret.lo, ret.hi, 0).out) = 2
    /\ pool.count = SIZE

(***************************************************************************)
(* C10  count_above(k) and count_below(k) count the live keys strictly     *)
(* above and strictly below k; their sum plus 1 if k is stored, else 0,    *)
(* equals count_all.  This holds in every serving state, those after a     *)
(* reopen included.                                                        *)
(***************************************************************************)
C10_AboveBelowPartition ==
    Serving =>
        \A k \in Keys :
           LET above == pmemkv_count_above(db, pool, k)
               below == pmemkv_count_below(db, pool, k)
           IN  /\ above.status = "OK"
               /\ below.status = "OK"
               /\ above.cnt = Cardinality({x \in LiveKeys : Compare(db.cmp, x, k) > 0})
               /\ below.cnt = Cardinality({x \in LiveKeys : Compare(db.cmp, x, k) < 0})
               /\ above.cnt + below.cnt + (IF Stored(k) THEN 1 ELSE 0)
                     = pmemkv_count_all(db, pool).cnt

\* count_above of a stored key, asked after an open with the wrong comparator
\* was refused and the pool was opened again with the right one
C10_Witness ==
    /\ ret.op = "count_above"
    /\ ret.k = <<0>>
    /\ ret.cnt = 2
    /\ Stored(<<0>>)
    /\ Cardinality(LiveKeys) = 3
    /\ errormsg # <<>>
    /\ errormsg[1] = "pmemkv_open"
    /\ db.cmp = BinaryName

UsedNodes(p) == {n \in NodeIds : p.nodes[n].kind # "free"}

(***************************************************************************)
(* C12  A put of a key that is already stored returns OK, replaces the     *)
(* prior value (same, longer or shorter) and leaves count_all unchanged,   *)
(* also when the target leaf and the pool are full: no node is allocated,  *)
(* no key moves, no other value changes, the counter is not bumped.        *)
(***************************************************************************)
C12_ReplacementPut ==
    [][ (ret'.op = "put" /\ Stored(ret'.k)) =>
            /\ ret'.status = "OK"
            /\ pmemkv_get(db', pool', ret'.k).out = <<ret'.v>>
            /\ pool'.count = pool.count
            /\ pmemkv_count_all(db', pool').cnt = pmemkv_count_all(db, pool).cnt
            /\ UsedNodes(pool') = UsedNodes(pool)
            /\ pool'.root = pool.root
            /\ \A n \in NodeIds :
                 /\ pool'.nodes[n].keys = pool.nodes[n].keys
                 /\ pool'.nodes[n].kids = pool.nodes[n].kids
                 /\ pool'.nodes[n].next = pool.nodes[n].next
            /\ \A k \in Keys \ {ret'.k} :
                 pmemkv_get(db', pool', k) = pmemkv_get(db, pool, k) ]_vars

\* a replacement into a full leaf of a full pool, by a value longer than the
\* key
C12_Witness ==
    /\ ret.op = "put"
    /\ ret.note = "replaced"
    /\ ret.status = "OK"
    /\ ret.k = <<>>
    /\ ret.v = <<1>>
    /\ pool.count = SIZE
    /\ Len(pool.nodes[Lookup(pool, db.cmp, ret.k).leaf].keys) = LEAF_CAP(pool)

(***************************************************************************)
(* C13  remove of a key that is not stored returns NOT_FOUND, opens no     *)
(* transaction (nothing is logged for rollback, no write is issued) and    *)
(* leaves count_all and every stored entry unchanged.                      *)
(***************************************************************************)
C13_RemoveAbsent ==
    [][ (Serving /\ ret'.op = "remove" /\ ~Stored(ret'.k)) =>
            /\ ret'.status = "NOT_FOUND"
            /\ undo' = <<>>
            /\ pending' = <<>>
            /\ pool' = pool
            /\ live' = live
            /\ FullListing(db', pool') = FullListing(db, pool) ]_vars

\* remove of a key that extends a stored key by a NUL byte, two keys stored
C13_Witness ==
    /\ ret.op = "remove"
    /\ ret.status = "NOT_FOUND"
    /\ ret.k = <<1, 0>>
    /\ Stored(<<1>>)
    /\ Cardinality(live) = 2
    /\ undo = <<>>

\* what get(k) must answer given the committed entries S
Expected(S, k) ==
    IF \E e \in S : e[1] = k
    THEN [status |-> "OK", out |-> <<(CHOOSE e \in S : e[1] = k)[2]>>]
    ELSE [status |-> "NOT_FOUND", out |-> <<>>]

(***************************************************************************)
(* C14  Keys count over their full explicit length, NUL bytes included: a  *)
(* key and a longer key that extends it past a NUL byte are distinct       *)
(* entries, each with its own value.  A successful remove(k) makes         *)
(* exists(k) NOT_FOUND and leaves the existence and the value of every     *)
(* other key unchanged.                                                    *)
(***************************************************************************)
C14_FullLengthKeys ==
    [][ /\ (ret'.op = "remove" /\ ret'.status = "OK") =>
               /\ pmemkv_exists(db', pool', ret'.k).status = "NOT_FOUND"
               /\ \A k \in Keys \ {ret'.k} :
                    /\ pmemkv_exists(db', pool', k) = pmemkv_exists(db, pool, k)
                    /\ pmemkv_get(db', pool', k) = pmemkv_get(db, pool, k)
        /\ Serving' =>
               \A k \in Keys :
                  /\ pmemkv_get(db', pool', k).status = Expected(live', k).status
                  /\ pmemkv_get(db', pool', k).out = Expected(live', k).out
                  /\ pmemkv_exists(db', pool', k).status = Expected(live', k).status ]_vars

\* remove of the key <<1, 0>> while its prefix <<1>> and the key <<0>> stay
\* stored, the prefix with a value of its own
C14_Witness ==
    /\ ret.op = "remove"
    /\ ret.status = "OK"
    /\ ret.k = <<1, 0>>
    /\ <<(<<1>>), (<<1, 0>>)>> \in live
    /\ Stored(<<0>>)
    /\ ~Stored(<<>>)

\* the committed entries once the call recorded in r has succeeded
After(S, r) == IF r.op = "put" THEN WithEntry(S, r.k, r.v) ELSE WithoutKey(S, r.k)

(***************************************************************************)
(* C15  When a put or remove ends, the caller observes either success or   *)
(* no change.  A call that ends with a status other than OK (allocation    *)
(* failure, transaction-scope error, any other error raised inside its     *)
(* transaction, a full pool, an absent key) leaves the store exactly as it *)
(* was before the call: same keys, values, count_all and tree structure,   *)
(* and no transaction left open.  A call that ends with OK has taken full  *)
(* effect.                                                                 *)
(***************************************************************************)
C15_FailedMutationNoChange ==
    [][ (ret'.op \in {"put", "remove"} /\ ret'.status # "RUNNING") =>
            /\ undo' = <<>>
            /\ pending' = <<>>
            /\ FullListing(db', pool') =
                  [entries |-> SortedEntries(db.cmp, live'), count |-> Cardinality(live')]
            /\ ret'.status = "OK" => live' = After(live, ret')
            /\ ret'.status # "OK" =>
                  /\ live' = live
                  /\ pool' = Recover(pool, undo) ]_vars

\* a put of a new key into a full leaf (it has to split) that failed inside
\* its transaction: the two entries committed before are in one leaf again
C15_Witness ==
    /\ ret.op = "put"
    /\ ret.status = "FAILED"
    /\ errormsg = <<"pmemkv_put", "transaction aborted">>
    /\ ~Stored(ret.k)
    /\ Cardinality(live) = 2
    /\ pool.nodes[pool.root].kind = "leaf"
    /\ undo = <<>>

(***************************************************************************)
(* C16  No exception leaves a public data or config call: an internal      *)
(* error carrying status S is returned as S, an allocation failure as      *)
(* OUT_OF_MEMORY, every other exception as FAILED, and on each of these    *)
(* paths the call leaves its diagnostic in the last-error stream.          *)
(***************************************************************************)
C16_ExceptionsTranslated ==
    ret.raised.exc # "none" =>
        /\ ret.op \in DataCalls \cup ConfigCalls
        /\ ret.status = (CASE ret.raised.exc = "error" -> ret.raised.status
                           [] ret.raised.exc = "bad_alloc" -> "OUT_OF_MEMORY"
                           [] OTHER -> "FAILED")
        /\ ret.status # "OK"
        /\ errormsg # <<>>
        /\ errormsg[1] = ret.op

\* an exception that is no std::runtime_error, raised under pmemkv_get_between
C16_Witness ==
    /\ ret.op = "pmemkv_get_between"
    /\ ret.raised.exc = "other"
    /\ ret.status = "FAILED"
    /\ errormsg = <<"pmemkv_get_between", "Unspecified error">>

(***************************************************************************)
(* C17  open (with somewhere to put the handle) with an engine name that   *)
(* is not in the compile-time set returns FAILED, leaves the diagnostic    *)
(* "Unknown engine name", constructs no engine (the pool is not touched)   *)
(* and sets the caller's handle to null.                                   *)
(***************************************************************************)
C17_UnknownEngine ==
    [][ (ret'.op = "open" /\ ret'.name \notin EngineNames
           /\ ret'.status # "INVALID_ARGUMENT") =>
            /\ ret'.status = "FAILED"
            /\ errormsg' = <<"pmemkv_open", "Unknown engine name">>
            /\ ret'.handle = "null"
            /\ db' = Closed
            /\ pool' = pool
            /\ undo' = undo ]_vars

\* an unknown engine name tried on an existing pool with entries
C17_Witness ==
    /\ ret.op = "open"
    /\ ret.name = "nosuch"
    /\ ret.status = "FAILED"
    /\ ret.handle = "null"
    /\ pool.created
    /\ pool.count = 2

(***************************************************************************)
(* C18  The configuration bag passed to open is consumed on every path:    *)
(* when open returns, whatever the status, the bag is owned by the engine  *)
(* or has been destroyed; the caller never still owns it.                  *)
(***************************************************************************)
C18_ConfigConsumed ==
    ret.op = "open" => ret.config \in {"engine", "destroyed"}

(***************************************************************************)
(* C19  Without a comparator from the caller the default byte-             *)
(* lexicographic comparator is used: creating a pool without a comparator  *)
(* persists the default comparator's name, reopening such a pool without   *)
(* a comparator returns OK, and the range counts after the reopen follow   *)
(* byte-lexicographic order.                                               *)
(***************************************************************************)
C19_DefaultComparator ==
    [][ (ret'.op = "open" /\ ret'.name = "stree" /\ ret'.cmp = NoComparator
           /\ ret'.status # "INVALID_ARGUMENT") =>
            /\ ~pool.created =>
                  /\ ret'.status = "OK"
                  /\ pool'.cmp = BinaryName
            /\ (pool.created /\ pool.cmp = BinaryName) =>
                  /\ ret'.status = "OK"
                  /\ db'.cmp = BinaryName
                  /\ \A k \in Keys :
                       /\ pmemkv_count_above(db', pool', k).cnt
                             = Cardinality({x \in LiveKeys : BinaryCompare(x, k) > 0})
                       /\ pmemkv_count_below(db', pool', k).cnt
                             = Cardinality({x \in LiveKeys : BinaryCompare(x, k) < 0})
                  /\ \A k1 \in Keys, k2 \in Keys :
                       pmemkv_count_between(db', pool', KeyEP(k1), KeyEP(k2)).cnt
                          = Cardinality({x \in LiveKeys : /\ BinaryCompare(k1, x) < 0
                                                          /\ BinaryCompare(x, k2) < 0}) ]_vars

\* a reopen without a comparator of a pool with three keys: one is above and
\* one below the middle key
C19_Witness ==
    /\ ReopenedOK
    /\ ret.cmp = NoComparator
    /\ pool.cmp = BinaryName
    /\ LiveKeys = {<<0>>, <<1>>, <<1, 0>>}
    /\ pmemkv_count_above(db, pool, <<1>>).cnt = 1
    /\ pmemkv_count_below(db, pool, <<1>>).cnt = 1

Scans == {"get_all", "get_above", "get_below", "get_between"}

\* the entries the scan recorded in r has to visit, in order
ToVisit(r) ==
    SortedEntries(db.cmp,
        CASE r.op = "get_all" -> Within(db.cmp, MIN_KEY, MAX_KEY)
          [] r.op = "get_above" -> Within(db.cmp, KeyEP(r.k), MAX_KEY)
          [] r.op = "get_below" -> Within(db.cmp, MIN_KEY, KeyEP(r.k))
          [] OTHER -> Within(db.cmp, r.lo, r.hi))

(***************************************************************************)
(* C20  A range scan halts as soon as the callback returns non-zero: the   *)
(* callback has received, in order, the entries up to and including the    *)
(* one at which it returned non-zero and none after it, and the call       *)
(* returns STOPPED_BY_CB instead of OK.  A scan whose callback never       *)
(* returns non-zero visits the whole range and returns OK.                 *)
(***************************************************************************)
C20_CallbackStops ==
    ret.op \in Scans =>
        IF ret.cb > 0 /\ Len(ToVisit(ret)) >= ret.cb
        THEN /\ ret.status = "STOPPED_BY_CB"
             /\ ret.out = SubSeq(ToVisit(ret), 1, ret.cb)
        ELSE /\ ret.status = "OK"
             /\ ret.out = ToVisit(ret)

\* get_above stopped at the second of three entries, across a leaf boundary
C20_Witness ==
    /\ ret.op = "get_above"
    /\ ret.k = <<>>
    /\ ret.cb = 2
    /\ ret.status = "STOPPED_BY_CB"
    /\ Len(ret.out) = 2
    /\ Len(ToVisit(ret)) = 3
    /\ db.cmp = BinaryName

(***************************************************************************)
(* C21  The last-error message is reset at the start of each public call:  *)
(* after a public call that succeeds the accessor returns no message from  *)
(* an earlier failed call, and after a call that failed with a diagnostic  *)
(* it returns that call's message only.                                    *)
(***************************************************************************)
C21_ErrorMsgReset ==
    ret.op \in {"open", "put", "remove", "exists", "get", "count_all"} =>
        /\ ret.status = "OK" => errormsg = <<>>
        /\ ret.status \in {"FAILED", "OUT_OF_MEMORY"} =>
              /\ errormsg # <<>>
              /\ errormsg[1] = "pmemkv_" \o ret.op

(***************************************************************************)
(* C22  Whenever a public call returns FAILED, that call has populated the *)
(* last-error diagnostic: FAILED is never returned with the diagnostic     *)
(* unset or holding an earlier call's message.                             *)
(***************************************************************************)
C22_FailedHasDiagnostic ==
    ret.status = "FAILED" =>
        /\ errormsg # <<>>
        /\ errormsg[1] = "pmemkv_" \o ret.op

GotCopy == ret.op = "get_copy" /\ ret.raised.out # <<>>

(***************************************************************************)
(* C28  pmemkv_get_copy on a stored key returns OK exactly when the value  *)
(* is shorter than buffer_size; the buffer then holds the value followed   *)
(* only by zero bytes.  When the value is as long as buffer_size or longer *)
(* it returns FAILED, the buffer is all zero, and a non-null value_size    *)
(* holds the full value length (as it does on success).                    *)
(***************************************************************************)
C28_GetCopyFits ==
    (GotCopy /\ Stored(ret.k)) =>
        LET v == Expected(live, ret.k).out[1]
        IN  /\ ret.status = (IF Len(v) < ret.cnt THEN "OK" ELSE "FAILED")
            /\ ~ret.buffer.null =>
                  ret.buffer.bytes = (IF Len(v) < ret.cnt
                                      THEN v \o Zeros(ret.cnt - Len(v))
                                      ELSE Zeros(ret.cnt))
            /\ ~ret.value_size.null => ret.value_size.val = <<Len(v)>>
            /\ ret.value_size.null => ret.value_size = NoCell

\* a value of two bytes asked into a buffer of two bytes
C28_Witness ==
    /\ GotCopy
    /\ ret.status = "FAILED"
    /\ ret.cnt = 2
    /\ ret.buffer = Buffer(<<0, 0>>)
    /\ ret.value_size.val = <<2>>
    /\ <<ret.k, <<1, 1>>>> \in live

(***************************************************************************)
(* C29  pmemkv_get_copy on a key that is not stored returns NOT_FOUND and  *)
(* does not write *value_size, but a non-null buffer is zero-filled over   *)
(* its whole buffer_size, as on every other outcome.  When the engine's    *)
(* get returns OK without invoking the callback, pmemkv_get_copy returns   *)
(* NOT_FOUND.                                                              *)
(***************************************************************************)
C29_GetCopyAbsent ==
    ret.op = "get_copy" =>
        /\ (~Stored(ret.k) \/ ret.raised.out = <<>>) =>
              /\ ret.status = "NOT_FOUND"
              /\ ret.value_size.val = <<>>
              /\ ~ret.buffer.null => ret.buffer.bytes = Zeros(ret.cnt)
        /\ ~ret.buffer.null => \A i \in 1 .. ret.cnt :
              ret.buffer.bytes[i] = 0 \/ (ret.status = "OK" /\ i <= Len(ret.raised.out[1]))

\* a key that extends a stored key by a NUL byte, asked into a buffer of three
\* bytes with somewhere to put the length
C29_Witness ==
    /\ ret.op = "get_copy"
    /\ ret.raised.status = "NOT_FOUND"
    /\ ret.k = <<1, 0>>
    /\ Stored(<<1>>)
    /\ ret.buffer = Buffer(<<0, 0, 0>>)
    /\ ret.value_size = Cell

C27_HandleAfterOpen ==
    (ret.op = "open" /\ ~ret.nulldb) =>
        ret.handle = (IF ret.status = "OK" THEN "engine" ELSE "null")

\* the objects a bag holds, those inside its sub-configurations included
RECURSIVE Held(_)
Held(items) ==
    IF items = <<>> THEN {}
    ELSE (IF Head(items).type = "object"
          THEN {Head(items).obj} \cup Held(Head(items).sub) ELSE {})
            \cup Held(Tail(items))

Disposals(id) == Cardinality({i \in DOMAIN bag.log : bag.log[i] = id})
Reverse(q) == [i \in 1 .. Len(q) |-> q[Len(q) + 1 - i]]
TopObjects(items) ==
    LET objs == SelectSeq(items, LAMBDA b : b.type = "object")
    IN  [i \in 1 .. Len(objs) |-> objs[i].obj]

(***************************************************************************)
(* C23  Every object placed in a configuration bag, the sub-configuration  *)
(* created for each nested JSON object included, has its disposer invoked  *)
(* exactly once over the life of the bag: none while the bag holds it,     *)
(* once when its binding is replaced or the bag is destroyed or JSON       *)
(* loading fails, never twice and never zero times; at destruction the     *)
(* disposers of the bag's bindings run in reverse insertion order.         *)
(***************************************************************************)
C23_DisposedOnce ==
    [][ /\ \A id \in 1 .. bag'.made :
              Disposals(id)' = (IF id \in Held(bag'.items) THEN 0 ELSE 1)
        /\ (bag.alive /\ ~bag'.alive) =>
              LET run == SubSeq(bag'.log, Len(bag.log) + 1, Len(bag'.log))
                  top == TopObjects(bag.items)
              IN  SelectSeq(run, LAMBDA id : \E i \in DOMAIN top : top[i] = id)
                     = Reverse(top) ]_vars

\* the members that load: of a supported kind, nothing going wrong, and for an
\* object every member of it loading
RECURSIVE Loads(_)
Loads(ms) ==
    \A i \in DOMAIN ms :
        /\ ms[i].fault = "none"
        /\ \/ ms[i].kind \in ScalarKinds
           \/ ms[i].kind = "object" /\ Loads(ms[i].sub)

\* a member of an unsupported kind, or a nested object that fails to load
Offending(m) ==
    \/ m.kind \in {"null", "array"}
    \/ m.kind = "object" /\ m.fault # "alloc" /\ ~Loads(m.sub)

TypesIn(items) ==
    [n \in Names |->
        IF \E i \in DOMAIN items : items[i].name = n
        THEN items[CHOOSE i \in DOMAIN items : items[i].name = n].type
        ELSE "none"]

\* the types bound once the members before the j-th are loaded into items
BoundAfter(items, ms, j) ==
    [n \in Names |->
        LET at == {i \in 1 .. (j - 1) : ms[i].name = n}
        IN  IF at = {} THEN TypesIn(items)[n]
            ELSE TypeOf(ms[CHOOSE i \in at : \A h \in at : h <= i].kind)]

(***************************************************************************)
(* C30  pmemkv_config_from_json leaves the bag unchanged when the text     *)
(* does not parse as a JSON document.  When a well-formed document has a   *)
(* member of an unsupported kind (null, array) or a nested object that     *)
(* fails to load, the call returns CONFIG_PARSING_ERROR, the members that  *)
(* precede the offending one are bound in the bag, and no binding is added *)
(* for the offending member or any member after it.                        *)
(***************************************************************************)
C30_FromJsonPartial ==
    [][ ret'.op = "config_from_json" =>
          LET ms == ret'.doc.members
          IN  /\ ~ret'.doc.parses =>
                    /\ ret'.status = "CONFIG_PARSING_ERROR"
                    /\ bag'.items = bag.items
              /\ \A j \in DOMAIN ms :
                    (Loads(SubSeq(ms, 1, j - 1)) /\ Offending(ms[j])) =>
                        /\ ret'.status = "CONFIG_PARSING_ERROR"
                        /\ TypesIn(bag'.items) = BoundAfter(bag.items, ms, j)
                        /\ \A b \in {bag.items[i] : i \in DOMAIN bag.items} :
                              (\A i \in 1 .. (j - 1) : ms[i].name # b.name) =>
                                  \E i \in DOMAIN bag'.items : bag'.items[i] = b ]_vars

\* a boolean member bound as an int64, then an object whose only member is null:
\* its sub-configuration was deleted, the bag keeps the first member alone
C30_Witness ==
    /\ ret.op = "config_from_json"
    /\ ret.status = "CONFIG_PARSING_ERROR"
    /\ ret.doc = Doc(<<Member("a", "bool", <<>>, "none"),
                       Member("b", "object", <<Member("a", "null", <<>>, "none")>>, "none")>>)
    /\ bag.items = <<Binding("a", "int64", 0, <<>>)>>
    /\ bag.log = <<1>>

Height(p) == IF p.root = 0 THEN 0 ELSE Len(PathTo(p.nodes, p.root, BinaryName, MIN_KEY))
InsertedOK(k) == [status |-> "OK", out |-> <<k \o <<33>>>>]
Answer(d, p, k) ==
    LET r == pmemkv_get(d, p, k) IN [status |-> r.status, out |-> r.out]

(***************************************************************************)
(* C24  A put of key k leaves the existence and value of every other key   *)
(* unchanged, also when the insert splits a full leaf, propagates splits   *)
(* through inner nodes and grows a new root: after the keys 1 .. n are     *)
(* put in any order (ascending and descending among them), every key put   *)
(* so far is returned by get with its own value, no other key is, and      *)
(* count_all is the number of keys put.                                    *)
(***************************************************************************)
C24_PutLeavesOthers ==
    [][ (ret'.op = "put" /\ ret'.status = "OK") =>
          /\ \A k \in LargeKeys \ {ret'.k} : Answer(db', pool', k) = Answer(db, pool, k)
          /\ \A k \in LargeKeys :
                Answer(db', pool', k) =
                    (IF k \in {e[1] : e \in live'} THEN InsertedOK(k)
                     ELSE [status |-> "NOT_FOUND", out |-> <<>>])
          /\ pmemkv_count_all(db', pool').cnt = Cardinality(live') ]_vars

\* all the keys are in and the tree has grown to three levels: leaves split,
\* an inner node split, a new root was made
C24_Witness ==
    /\ ret.op = "put"
    /\ ret.status = "OK"
    /\ Cardinality(live) = LARGE_LIMIT
    /\ Height(pool) = 3

NonRoot(p) == {n \in NodeIds : p.nodes[n].kind # "free" /\ n # p.root}
\* no transaction is running: the last one has committed or aborted
Settled == undo = <<>>

====
